---- MODULE Spec2Model ----
(***************************************************************************)
(* Model of scrape_news.py: the query builder (google_news_rss_url), the   *)
(* feed reader (fetch_rss_feed), the per-entry extraction                  *)
(* (extract_article_content) and the collection loop and sink of main().   *)
(*                                                                         *)
(* Text is modelled as a sequence of characters, each character a string   *)
(* (a one-letter string for ASCII, "U+XXXX" for a code point outside       *)
(* ASCII).                                                                 *)
(***************************************************************************)
EXTENDS Integers, Sequences, FiniteSets, TLC

VARIABLES
    topic,         \* args.topic
    lang,          \* args.lang
    country,       \* args.country
    limit,         \* args.limit
    sleepSeconds,  \* args.sleep
    out,           \* args.out
    rss_url,       \* the URL returned by google_news_rss_url (<<>> before)
    feed,          \* feed.entries as parsed by feedparser (raw entries)
    entries,       \* main's entries (what fetch_rss_feed returned)
    i,             \* enumerate index of the entry being processed
    row,           \* the draft record of the entry being processed
    results,       \* main's results list
    attempts,      \* log: every call of extract_article_content and its outcome
    progress,      \* log: progress lines printed by the loop
    pauses,        \* log: every time.sleep of the loop
    fileOpened,    \* the output destination has been created/truncated
    fileLines,     \* lines written to the output destination
    w,             \* number of records the sink has consumed
    saved,         \* the count printed by the final summary (-1: not printed)
    pc,            \* position of main()
    crashIn        \* where the run ended abnormally ("none" if it did not)

vars == <<topic, lang, country, limit, sleepSeconds, out, rss_url, feed, entries, i,
          row, results, attempts, progress, pauses, fileOpened, fileLines, w, saved,
          pc, crashIn>>

----------------------------------------------------------------------------
\* Bounds of the model

MaxTopicLen == 2
MaxFeed == 3
MaxNegLimit == 1
MaxSleep == 1

----------------------------------------------------------------------------
\* Generic helpers

Min(a, b) == IF a < b THEN a ELSE b

Max(a, b) == IF a > b THEN a ELSE b

RECURSIVE SeqsUpTo(_, _)
SeqsUpTo(S, n) ==
    IF n = 0 THEN {<<>>}
    ELSE LET shorter == SeqsUpTo(S, n - 1)
         IN  shorter \cup {Append(s, x) : s \in {t \in shorter : Len(t) = n - 1}, x \in S}

RECURSIVE Concat(_)
Concat(ss) == IF ss = <<>> THEN <<>> ELSE Head(ss) \o Concat(Tail(ss))

Count(s, c) == Cardinality({k \in 1..Len(s) : s[k] = c})

StartsWith(s, p) == Len(s) >= Len(p) /\ SubSeq(s, 1, Len(p)) = p

EndsWith(s, p) == Len(s) >= Len(p) /\ SubSeq(s, Len(s) - Len(p) + 1, Len(s)) = p

\* the pieces of s between occurrences of the separator c
RECURSIVE Split(_, _)
Split(s, c) ==
    IF \A k \in 1..Len(s) : s[k] # c THEN <<s>>
    ELSE LET p == CHOOSE k \in 1..Len(s) : s[k] = c /\ \A j \in 1..(k - 1) : s[j] # c
         IN  <<SubSeq(s, 1, p - 1)>> \o Split(SubSeq(s, p + 1, Len(s)), c)

----------------------------------------------------------------------------
\* urllib.parse.quote_plus, as called by google_news_rss_url

\* characters quote() never encodes: ASCII letters, digits and _.-~
AlwaysSafe ==
    {"A","B","C","D","E","F","G","H","I","J","K","L","M",
     "N","O","P","Q","R","S","T","U","V","W","X","Y","Z",
     "a","b","c","d","e","f","g","h","i","j","k","l","m",
     "n","o","p","q","r","s","t","u","v","w","x","y","z",
     "0","1","2","3","4","5","6","7","8","9","_",".","-","~"}

\* code point of the characters that are not always safe
Ord(c) ==
    CASE c = " " -> 32
      [] c = "#" -> 35
      [] c = "%" -> 37
      [] c = "&" -> 38
      [] c = "+" -> 43
      [] c = "=" -> 61
      [] c = "?" -> 63
      [] c = "U+00E9" -> 233       \* e with acute accent
      [] c = "U+DC80" -> 56448     \* a lone surrogate (surrogateescape of byte 0x80)

IsSurrogate(c) == c \notin AlwaysSafe /\ Ord(c) >= 55296 /\ Ord(c) <= 57343

\* str.encode('utf-8', 'strict') of one character; defined when not IsSurrogate
Utf8(c) ==
    LET cp == Ord(c)
    IN  IF cp < 128 THEN <<cp>>
        ELSE IF cp < 2048 THEN <<192 + (cp \div 64), 128 + (cp % 64)>>
        ELSE <<224 + (cp \div 4096), 128 + ((cp \div 64) % 64), 128 + (cp % 64)>>

HexDigit == <<"0","1","2","3","4","5","6","7","8","9","A","B","C","D","E","F">>

PercentByte(b) == <<"%", HexDigit[(b \div 16) + 1], HexDigit[(b % 16) + 1]>>

QuoteCharMutantAmp(c) ==
    IF c \in AlwaysSafe \cup {"&"} THEN <<c>>
    ELSE IF c = " " THEN <<"+">>
    ELSE Concat([k \in 1..Len(Utf8(c)) |-> PercentByte(Utf8(c)[k])])

QuoteChar(c) ==
    IF c \in AlwaysSafe THEN <<c>>
    ELSE IF c = " " THEN <<"+">>
    ELSE Concat([k \in 1..Len(Utf8(c)) |-> PercentByte(Utf8(c)[k])])

\* quote_plus raises UnicodeEncodeError when the text cannot be encoded
QuoteRaises(s) == \E k \in 1..Len(s) : IsSurrogate(s[k])

quote_plus(s) == Concat([k \in 1..Len(s) |-> QuoteChar(s[k])])

UrlPrefix ==
    <<"h","t","t","p","s",":","/","/","n","e","w","s",".","g","o","o","g","l","e",
      ".","c","o","m","/","r","s","s","/","s","e","a","r","c","h","?","q","=">>

google_news_rss_url(t, l, c) ==
    LET q == quote_plus(t)
    IN  UrlPrefix \o q \o <<"&","h","l","=">> \o l \o <<"&","g","l","=">> \o c
          \o <<"&","c","e","i","d","=">> \o c \o <<":">> \o l

\* "AI regulation in South Africa"
ExampleTopic ==
    <<"A","I"," ","r","e","g","u","l","a","t","i","o","n"," ","i","n"," ",
      "S","o","u","t","h"," ","A","f","r","i","c","a">>

TopicAlphabet == {"a", "Z", " ", "#", "%", "&", "+", "=", "?", "U+00E9", "U+DC80"}

Topics == SeqsUpTo(TopicAlphabet, MaxTopicLen) \cup {ExampleTopic}

Langs == {<<"e","n">>, <<"f","r">>}

Countries == {<<"Z","A">>, <<"U","S">>}

----------------------------------------------------------------------------
\* fetch_rss_feed

FeedEntryFields == {"title", "link", "published", "summary"}

\* raw entries a parsed feed can hold; feedparser raises AttributeError on
\* reading an attribute the entry does not have
EntryA == [title |-> "tA", link |-> "A", published |-> "pA", summary |-> "sA"]

EntryB == [title |-> "tB", link |-> "B", published |-> "pB", summary |-> "sB"]

EntryEmptyLink == [title |-> "tC", link |-> "", published |-> "pC", summary |-> "sC"]

EntryNoLink == [title |-> "tD", published |-> "pD", summary |-> "sD"]

RawEntries == {EntryA, EntryB, EntryEmptyLink, EntryNoLink}

Feeds == SeqsUpTo(RawEntries, MaxFeed)

Limits == (0 - MaxNegLimit)..(MaxFeed + 1)

\* Python's s[:n]
SliceTo(s, n) ==
    IF n >= 0 THEN SubSeq(s, 1, Min(n, Len(s)))
    ELSE SubSeq(s, 1, Max(0, Len(s) + n))

FetchRaises(f, lim) ==
    \E k \in 1..Len(SliceTo(f, lim)) : ~(FeedEntryFields \subseteq DOMAIN SliceTo(f, lim)[k])

fetch_rss_feed(f, lim) ==
    LET sl == SliceTo(f, lim)
    IN  [k \in 1..Len(sl) |->
            [title |-> sl[k].title, link |-> sl[k].link,
             published |-> sl[k].published, summary |-> sl[k].summary]]

----------------------------------------------------------------------------
\* extract_article_content and the record assembly of main

ExtractionFields == {"final_url", "text", "authors", "publish_date", "top_image"}

\* Article.publish_date after parse(): None or a datetime object
PublishDates == {"None", "datetime"}

\* exceptions the call can raise: requests.get (transport/timeout),
\* raise_for_status (HTTP status), Article.parse (parse); args as in Python
Exceptions ==
    { [stage |-> "transport", args |-> <<"Read timed out">>],
      [stage |-> "status", args |-> <<"404 Client Error">>],
      [stage |-> "parse", args |-> <<>>] }

\* str(ex) of an exception: its single argument, '' when raised with none
Str(ex) == IF Len(ex.args) = 0 THEN "" ELSE ex.args[1]

\* dict.update / {**a, **b}
Update(r, d) == [k \in (DOMAIN r) \cup (DOMAIN d) |-> IF k \in DOMAIN d THEN d[k] ELSE r[k]]

extract_article_content(url, d) ==
    [final_url |-> url, text |-> "body", authors |-> <<>>, publish_date |-> d,
     top_image |-> "img"]

\* the model's clock: time advances by the pauses
Now == Len(pauses) * sleepSeconds

DraftRow(e) == Update(e, [topic |-> topic, collected_at |-> Now])

\* json.dumps raises TypeError on a datetime value; publish_date is the only
\* field that can hold one
JsonSerializable(r) == ~("publish_date" \in DOMAIN r /\ r.publish_date = "datetime")

JsonLine(r) == [kind |-> "json", rec |-> r]

----------------------------------------------------------------------------
\* main

MainTopics == {ExampleTopic, <<"U+DC80">>}

\* --sleep is any integer; time.sleep raises ValueError for a negative one
Sleeps == (-1)..MaxSleep

Outs == {"articles.jsonl", "articles.csv", "articles.cvs"}

\* args.out.lower().endswith(".cvs")
EndsWithCvs(o) == o = "articles.cvs"

Init ==
    /\ topic \in MainTopics
    /\ lang = <<"e","n">>
    /\ country = <<"Z","A">>
    /\ limit \in Limits
    /\ sleepSeconds \in Sleeps
    /\ out \in Outs
    /\ rss_url = <<>>
    /\ feed = <<>>
    /\ entries = <<>>
    /\ i = 0
    /\ row = [ok |-> FALSE]
    /\ results = <<>>
    /\ attempts = <<>>
    /\ progress = <<>>
    /\ pauses = <<>>
    /\ fileOpened = FALSE
    /\ fileLines = <<>>
    /\ w = 0
    /\ saved = -1
    /\ pc = "start"
    /\ crashIn = "none"

args == <<topic, lang, country, limit, sleepSeconds, out>>

sinkVars == <<fileOpened, fileLines, w, saved>>

loopVars == <<i, row, results, attempts, progress, pauses>>

Crash(where) == pc' = "crashed" /\ crashIn' = where

\* line 59, the call returns
BuildUrl ==
    /\ pc = "start"
    /\ ~QuoteRaises(topic)
    /\ rss_url' = google_news_rss_url(topic, lang, country)
    /\ pc' = "fetch"
    /\ UNCHANGED <<args, feed, entries, loopVars, sinkVars, crashIn>>

\* line 59, quote_plus raises
BuildUrlRaises ==
    /\ pc = "start"
    /\ QuoteRaises(topic)
    /\ Crash("query")
    /\ UNCHANGED <<args, rss_url, feed, entries, loopVars, sinkVars>>

\* line 60, the call returns
Fetch ==
    /\ pc = "fetch"
    /\ \E f \in Feeds :
         /\ ~FetchRaises(f, limit)
         /\ feed' = f
         /\ entries' = fetch_rss_feed(f, limit)
    /\ pc' = "loop"
    /\ UNCHANGED <<args, rss_url, loopVars, sinkVars, crashIn>>

\* line 60, an entry lacks an attribute
FetchRaisesAttr ==
    /\ pc = "fetch"
    /\ \E f \in Feeds :
         /\ FetchRaises(f, limit)
         /\ feed' = f
    /\ Crash("feed")
    /\ UNCHANGED <<args, rss_url, entries, loopVars, sinkVars>>

\* variant: an entry without a link is recorded as a failure
SkipEntryMutantRecord ==
    /\ pc = "loop"
    /\ i < Len(entries)
    /\ entries[i + 1].link = ""
    /\ results' = Append(results, Update(DraftRow(entries[i + 1]),
                                         [ok |-> FALSE, error |-> "no link"]))
    /\ i' = i + 1
    /\ UNCHANGED <<args, rss_url, feed, entries, row, attempts, progress,
                   pauses, sinkVars, pc, crashIn>>

\* lines 63-66, an entry without a link: continue
SkipEntry ==
    /\ pc = "loop"
    /\ i < Len(entries)
    /\ entries[i + 1].link = ""
    /\ i' = i + 1
    /\ UNCHANGED <<args, rss_url, feed, entries, row, results, attempts, progress,
                   pauses, sinkVars, pc, crashIn>>

\* lines 63-68
BeginEntry ==
    /\ pc = "loop"
    /\ i < Len(entries)
    /\ entries[i + 1].link # ""
    /\ row' = DraftRow(entries[i + 1])
    /\ pc' = "extract"
    /\ UNCHANGED <<args, rss_url, feed, entries, i, results, attempts, progress,
                   pauses, sinkVars, crashIn>>

\* variant: the row is marked ok without merging the extracted fields
ExtractOkMutantNoMerge ==
    /\ pc = "extract"
    /\ \E d \in PublishDates :
         /\ row' = Update(row, [ok |-> TRUE])
         /\ attempts' = Append(attempts, [link |-> row.link, ok |-> TRUE, i |-> i])
    /\ pc' = "append"
    /\ UNCHANGED <<args, rss_url, feed, entries, i, results, progress, pauses,
                   sinkVars, crashIn>>

\* lines 69-72
ExtractOk ==
    /\ pc = "extract"
    /\ \E d \in PublishDates :
         /\ row' = Update(Update(row, extract_article_content(row.link, d)), [ok |-> TRUE])
         /\ attempts' = Append(attempts, [link |-> row.link, ok |-> TRUE, i |-> i])
    /\ pc' = "append"
    /\ UNCHANGED <<args, rss_url, feed, entries, i, results, progress, pauses,
                   sinkVars, crashIn>>

\* variant: no try/except around the call, the exception ends the run
ExtractFailMutantAbort ==
    /\ pc = "extract"
    /\ \E ex \in Exceptions :
         attempts' = Append(attempts, [link |-> row.link, ok |-> FALSE, i |-> i])
    /\ Crash("extract")
    /\ UNCHANGED <<args, rss_url, feed, entries, i, row, results, progress, pauses,
                   sinkVars>>

\* lines 69-70, 73-75
ExtractFail ==
    /\ pc = "extract"
    /\ \E ex \in Exceptions :
         /\ row' = Update(row, [ok |-> FALSE, error |-> Str(ex)])
         /\ attempts' = Append(attempts, [link |-> row.link, ok |-> FALSE, i |-> i])
    /\ pc' = "append"
    /\ UNCHANGED <<args, rss_url, feed, entries, i, results, progress, pauses,
                   sinkVars, crashIn>>

\* variant: every record is written to the destination as soon as it is complete
AppendRowMutantIncremental ==
    /\ pc = "append"
    /\ results' = Append(results, row)
    /\ fileOpened' = TRUE
    /\ fileLines' = Append(fileLines, JsonLine(row))
    /\ pc' = "print"
    /\ UNCHANGED <<args, rss_url, feed, entries, i, row, attempts, progress, pauses,
                   w, saved, crashIn>>

\* line 77
AppendRow ==
    /\ pc = "append"
    /\ results' = Append(results, row)
    /\ pc' = "print"
    /\ UNCHANGED <<args, rss_url, feed, entries, i, row, attempts, progress, pauses,
                   sinkVars, crashIn>>

\* line 78
PrintProgress ==
    /\ pc = "print"
    /\ progress' = Append(progress, [i |-> i, total |-> Len(entries),
                                     ok |-> row.ok, title |-> row.title])
    /\ pc' = "sleep"
    /\ UNCHANGED <<args, rss_url, feed, entries, i, row, results, attempts, pauses,
                   sinkVars, crashIn>>

\* variant: no pause after the last entry
SleepMutantSkipLast ==
    /\ pc = "sleep"
    /\ sleepSeconds >= 0
    /\ pauses' = IF i + 1 < Len(entries)
                 THEN Append(pauses, [seconds |-> sleepSeconds, i |-> i,
                                      records |-> Len(results), lines |-> Len(progress)])
                 ELSE pauses
    /\ i' = i + 1
    /\ pc' = "loop"
    /\ UNCHANGED <<args, rss_url, feed, entries, row, results, attempts, progress,
                   sinkVars, crashIn>>

\* line 79, then the next iteration
Sleep ==
    /\ pc = "sleep"
    /\ sleepSeconds >= 0
    /\ pauses' = Append(pauses, [seconds |-> sleepSeconds, i |-> i,
                                 records |-> Len(results), lines |-> Len(progress)])
    /\ i' = i + 1
    /\ pc' = "loop"
    /\ UNCHANGED <<args, rss_url, feed, entries, row, results, attempts, progress,
                   sinkVars, crashIn>>

\* line 79, time.sleep raises ValueError (outside the try block)
SleepRaises ==
    /\ pc = "sleep"
    /\ sleepSeconds < 0
    /\ Crash("sleep")
    /\ UNCHANGED <<args, rss_url, feed, entries, loopVars, sinkVars>>

InLoop == \/ pc = "loop" /\ i < Len(entries)
          \/ pc \in {"extract", "append", "print", "sleep"}

\* the process is terminated from outside while the loop runs
\* (KeyboardInterrupt is not an Exception, so line 73 does not catch it)
Interrupt ==
    /\ InLoop
    /\ Crash("interrupt")
    /\ UNCHANGED <<args, rss_url, feed, entries, loopVars, sinkVars>>

\* variant: a run without records is reported as a failure
LoopExitMutantFailEmpty ==
    /\ pc = "loop"
    /\ i >= Len(entries)
    /\ IF results = <<>> THEN Crash("empty") ELSE pc' = "sink" /\ UNCHANGED crashIn
    /\ UNCHANGED <<args, rss_url, feed, entries, loopVars, sinkVars>>

\* line 63, the iteration is exhausted
LoopExit ==
    /\ pc = "loop"
    /\ i >= Len(entries)
    /\ pc' = "sink"
    /\ UNCHANGED <<args, rss_url, feed, entries, loopVars, sinkVars, crashIn>>

RECURSIVE Columns(_)
Columns(rs) == IF rs = <<>> THEN {} ELSE (DOMAIN Head(rs)) \cup Columns(Tail(rs))

\* lines 81-82: DataFrame.to_csv writes a header line and one row per record
SinkCsv ==
    /\ pc = "sink"
    /\ EndsWithCvs(out)
    /\ fileOpened' = TRUE
    /\ fileLines' = <<[kind |-> "header", columns |-> Columns(results)]>>
                     \o [k \in 1..Len(results) |-> [kind |-> "row", rec |-> results[k]]]
    /\ w' = Len(results)
    /\ pc' = "summary"
    /\ UNCHANGED <<args, rss_url, feed, entries, loopVars, saved, crashIn>>

\* line 84: open(args.out, 'w') creates or truncates the file
SinkOpen ==
    /\ pc = "sink"
    /\ ~EndsWithCvs(out)
    /\ fileOpened' = TRUE
    /\ fileLines' = <<>>
    /\ pc' = "write"
    /\ UNCHANGED <<args, rss_url, feed, entries, loopVars, w, saved, crashIn>>

\* lines 85-86, one record
SinkWrite ==
    /\ pc = "write"
    /\ w < Len(results)
    /\ JsonSerializable(results[w + 1])
    /\ fileLines' = Append(fileLines, JsonLine(results[w + 1]))
    /\ w' = w + 1
    /\ UNCHANGED <<args, rss_url, feed, entries, loopVars, fileOpened, saved, pc, crashIn>>

\* lines 85-86, json.dumps raises TypeError
SinkWriteRaises ==
    /\ pc = "write"
    /\ w < Len(results)
    /\ ~JsonSerializable(results[w + 1])
    /\ Crash("sink")
    /\ UNCHANGED <<args, rss_url, feed, entries, loopVars, sinkVars>>

\* line 85, all records written; the with block closes the file
SinkClose ==
    /\ pc = "write"
    /\ w >= Len(results)
    /\ pc' = "summary"
    /\ UNCHANGED <<args, rss_url, feed, entries, loopVars, sinkVars, crashIn>>

\* lines 88-89
Summary ==
    /\ pc = "summary"
    /\ saved' = Len(results)
    /\ pc' = "done"
    /\ UNCHANGED <<args, rss_url, feed, entries, loopVars, fileOpened, fileLines, w, crashIn>>

Next ==
    \/ BuildUrl
    \/ BuildUrlRaises
    \/ Fetch
    \/ FetchRaisesAttr
    \/ SkipEntry
    \/ BeginEntry
    \/ ExtractOk
    \/ ExtractFail
    \/ AppendRow
    \/ PrintProgress
    \/ Sleep
    \/ SleepRaises
    \/ Interrupt
    \/ LoopExit
    \/ SinkCsv
    \/ SinkOpen
    \/ SinkWrite
    \/ SinkWriteRaises
    \/ SinkClose
    \/ Summary

Spec == Init /\ [][Next]_vars

\* google_news_rss_url called on its own, over many topics and locales
InitQuery ==
    /\ topic \in Topics
    /\ lang \in Langs
    /\ country \in Countries
    /\ limit = 0
    /\ sleepSeconds = 0
    /\ out = "articles.jsonl"
    /\ rss_url = <<>>
    /\ feed = <<>>
    /\ entries = <<>>
    /\ i = 0
    /\ row = [ok |-> FALSE]
    /\ results = <<>>
    /\ attempts = <<>>
    /\ progress = <<>>
    /\ pauses = <<>>
    /\ fileOpened = FALSE
    /\ fileLines = <<>>
    /\ w = 0
    /\ saved = -1
    /\ pc = "start"
    /\ crashIn = "none"

NextQuery ==
    \/ BuildUrl
    \/ BuildUrlRaises

SpecQuery == InitQuery /\ [][NextQuery]_vars

----------------------------------------------------------------------------
\* Properties

Fetched == pc \notin {"start", "fetch"} /\ crashIn \notin {"query", "feed"}

\* the for loop has run to its end
LoopDone ==
    \/ pc \in {"sink", "write", "summary", "done"}
    \/ pc = "crashed" /\ crashIn = "sink"

Linked(es) == SelectSeq(es, LAMBDA e : e.link # "")

Restrict(r, S) == [k \in S |-> r[k]]

\* the lines of the destination that hold a record
RecordLines == SelectSeq(fileLines, LAMBDA l : l.kind # "header")

RecordShape(r) ==
    IF r.ok
    THEN ExtractionFields \subseteq DOMAIN r /\ "error" \notin DOMAIN r
    ELSE "error" \in DOMAIN r /\ (DOMAIN r) \cap ExtractionFields = {}

\* C1: every record appended to results has exactly one of the two shapes:
\* ok with all five extraction fields and no error field, or not ok with an
\* error field and none of the extraction fields.
C1_RecordShape == \A k \in 1..Len(results) : RecordShape(results[k])

C1_Witness ==
    \E k1, k2 \in 1..Len(results) : results[k1].ok /\ ~results[k2].ok

\* C2: an extraction failure never ends the run: the run ends abnormally only
\* in the query builder, the feed reader, a rejected pause length, the sink
\* or by an interrupt; every
\* entry with a link that the loop has passed was attempted exactly once, in
\* order, and each record's outcome is the outcome of its own attempt.
C2_FailureIsolated ==
    /\ pc = "crashed" => crashIn \in {"query", "feed", "sleep", "interrupt", "sink"}
    /\ Len(attempts) - Len(results) \in {0, 1}
    /\ \A k \in 1..Len(results) :
         /\ results[k].link = attempts[k].link
         /\ results[k].ok = attempts[k].ok
    /\ \A k \in 1..Len(attempts) : attempts[k].link = entries[attempts[k].i + 1].link
    /\ (pc = "loop" \/ LoopDone) =>
         /\ Len(attempts) = Len(Linked(SubSeq(entries, 1, i)))
         /\ \A k \in 1..Len(attempts) :
              attempts[k].link = Linked(SubSeq(entries, 1, i))[k].link
    /\ LoopDone => i = Len(entries)

C2_Witness ==
    /\ LoopDone
    /\ \E k1, k2 \in 1..Len(results) : k1 < k2 /\ ~results[k1].ok /\ results[k2].ok

\* C3: when the loop has ended, results corresponds one-to-one and in order
\* to the entries with a non-empty link, each record carrying its entry's
\* title, link, published and summary.
C3_RecordsMatchLinkedEntries ==
    LoopDone =>
        /\ Len(results) = Len(Linked(entries))
        /\ \A k \in 1..Len(results) :
             Restrict(results[k], FeedEntryFields) = Linked(entries)[k]

C3_Witness ==
    /\ LoopDone
    /\ Len(entries) = 3
    /\ entries[1].link # ""
    /\ entries[2].link = ""
    /\ entries[3].link # ""
    /\ Len(results) = 2

\* C4: every record with ok = false has a non-empty error text.
C4_ErrorNonEmpty ==
    \A k \in 1..Len(results) : ~results[k].ok => results[k].error # ""

\* C5: the feed reader returns at most limit entries, the first
\* min(limit, feed length) entries of the feed, also for limit <= 0
\* (no entries then).
C5_FeedReaderPrefix ==
    Fetched =>
        /\ Len(entries) <= Max(limit, 0)
        /\ entries = SubSeq(feed, 1, Min(Max(limit, 0), Len(feed)))

\* C6: a run whose feed reader returned no entries ends normally: nothing is
\* extracted, no pause occurs, results stays empty, the output is written
\* with zero records and the summary reports 0 rows.
C6_ZeroEntries ==
    (Fetched /\ entries = <<>>) =>
        /\ pc \in {"loop", "sink", "write", "summary", "done"}
        /\ crashIn = "none"
        /\ attempts = <<>> /\ pauses = <<>> /\ results = <<>> /\ progress = <<>>
        /\ pc # "done" => ENABLED Next
        /\ pc \in {"summary", "done"} => fileOpened /\ RecordLines = <<>>
        /\ pc = "done" => saved = 0

C6_Witness ==
    /\ Fetched
    /\ entries = <<>>
    /\ pc = "done"
    /\ fileOpened
    /\ saved = 0

\* C7: as long as an entry is unprocessed, and whenever the run ends inside
\* the loop, the output destination is untouched.
C7_NoOutputBeforeLoopEnds ==
    (i < Len(entries) \/ ~LoopDone) => ~fileOpened /\ fileLines = <<>>

C7_Witness ==
    /\ pc = "crashed"
    /\ crashIn = "interrupt"
    /\ Len(results) >= 1
    /\ Len(progress) = Len(results)
    /\ Len(pauses) < Len(results)

\* C8: once the loop has ended the sink does not fail, writes one line per
\* record in run order, and the summary count is the number of lines.
C8_SinkWritesEveryRecord ==
    LoopDone =>
        /\ crashIn = "none"
        /\ pc \in {"summary", "done"} =>
             /\ Len(RecordLines) = Len(results)
             /\ \A k \in 1..Len(results) : RecordLines[k].rec = results[k]
        /\ pc = "done" => saved = Len(RecordLines)

UrlBase == SubSeq(UrlPrefix, 1, Len(UrlPrefix) - 2)

\* the query parameters of the built URL, as a receiver splits them
UrlParams == Split(SubSeq(rss_url, Len(UrlBase) + 1, Len(rss_url)), "&")

UrlShape ==
    /\ StartsWith(rss_url, UrlBase)
    /\ Count(rss_url, "?") = 1
    /\ Count(rss_url, "#") = 0
    /\ Len(UrlParams) = 4
    /\ StartsWith(UrlParams[1], <<"q","=">>)
    /\ LET enc == SubSeq(UrlParams[1], 3, Len(UrlParams[1]))
       IN  /\ \A k \in 1..Len(enc) : enc[k] \notin {" ", "&", "=", "#", "?"}
           /\ \A t \in Topics : (t # topic /\ ~QuoteRaises(t)) => quote_plus(t) # enc
    /\ UrlParams[2] = <<"h","l","=">> \o lang
    /\ UrlParams[3] = <<"g","l","=">> \o country
    /\ UrlParams[4] = <<"c","e","i","d","=">> \o country \o <<":">> \o lang
    /\ (topic = ExampleTopic /\ lang = <<"e","n">> /\ country = <<"Z","A">>) =>
         EndsWith(rss_url, <<"&","h","l","=","e","n","&","g","l","=","Z","A",
                             "&","c","e","i","d","=","Z","A",":","e","n">>)

\* C9 as stated: the query builder fails for no topic and the URL has the
\* given shape.
C9_NeverFails ==
    /\ crashIn # "query"
    /\ pc = "fetch" => UrlShape

\* C9, amended: the query builder fails for no topic that can be encoded as
\* UTF-8 (it raises for a topic holding a lone surrogate), and the URL it
\* returns has the given shape.
C9_QueryUrl ==
    /\ crashIn = "query" => QuoteRaises(topic)
    /\ (pc = "start" /\ ~QuoteRaises(topic)) => ENABLED BuildUrl
    /\ pc = "fetch" => UrlShape

C9_Witness ==
    /\ pc = "fetch"
    /\ topic = ExampleTopic
    /\ lang = <<"e","n">>
    /\ country = <<"Z","A">>

\* C10: every pause lasts sleepSeconds and follows the append and the
\* progress line of its entry; an extraction starts only when every earlier
\* record has had its pause; when the loop has ended there are as many pauses
\* as records, the final entry included.
C10_Pacing ==
    /\ \A k \in 1..Len(pauses) :
         /\ pauses[k].seconds = sleepSeconds
         /\ pauses[k].records = k
         /\ pauses[k].lines = k
         /\ pauses[k].i = attempts[k].i
    /\ Len(attempts) <= Len(pauses) + 1
    /\ pc = "extract" => Len(attempts) = Len(pauses)
    /\ (pc = "loop" \/ LoopDone) => Len(pauses) = Len(results)

C10_Witness ==
    /\ LoopDone
    /\ Len(entries) >= 2
    /\ entries[Len(entries)].link # ""
    /\ Len(pauses) = Len(entries)

====
